---- MODULE Spec2Model ----
(***************************************************************************)
(* Model of the chat client (Home: onSubmit, clearChat, setPrompt) and of  *)
(* the relay endpoint (POST /api/prompt) of src/app/api/prompt/route.ts.   *)
(*                                                                         *)
(* Text is a sequence of tokens.  Typed input is a sequence of characters; *)
(* a literal of the source is one token, so that template literals and the *)
(* || and ?? defaults are concatenations and tests on the empty text.  An  *)
(* optional value (string | null, number | undefined) is the empty         *)
(* sequence or a one-element sequence.                                     *)
(***************************************************************************)
EXTENDS Integers, Sequences, FiniteSets, TLC

\* Bounds of the model.
MaxMsgs == 3
MaxApi == 2

\* What the user types, or a caller of the relay sends as the prompt: empty,
\* white space only, plain, padded with white space, white space inside.
Inputs ==
    { <<>>, <<" ">>, <<"a">>, <<" ", "a", " ">>, <<"a", " ", "a">> }

Null == <<>>
Some(v) == <<v>>

\* ------------------------------------------------------------- literals
PromptEmptyMsg == <<"Prompt cannot be empty.">>
ServerErrorMsg == <<"Server error">>
PleaseEnterMsg == <<"Please enter a prompt.">>
RequestFailedMsg == <<"Request failed.">>
NetworkErrorMsg == <<"Network error. Please try again.">>
NoOutputMsg == <<"(No output)">>
ErrorPrefix == <<"Error: ">>

\* ------------------------------------------------------- String.trim()
IsSpace(c) == c = " "

RECURSIVE TrimStart(_)
TrimStart(s) ==
    IF Len(s) > 0 /\ IsSpace(Head(s)) THEN TrimStart(Tail(s)) ELSE s

RECURSIVE TrimEnd(_)
TrimEnd(s) ==
    IF Len(s) > 0 /\ IsSpace(s[Len(s)])
    THEN TrimEnd(SubSeq(s, 1, Len(s) - 1))
    ELSE s

Trim(s) == TrimEnd(TrimStart(s))

\* ------------------------------------------------------------ the state
VARIABLES
    prompt,     \* useState(""): the input field
    messages,   \* useState<ChatMessage[]>([])
    loading,    \* useState(false)
    error,      \* useState<string | null>(null)
    inflight    \* the HTTP exchanges that are outstanding, one record each

vars == <<prompt, messages, loading, error, inflight>>

State ==
    [prompt |-> prompt, messages |-> messages, loading |-> loading,
     error |-> error, inflight |-> inflight]

\* An exchange: the request body, the inputs the relay has handed to the
\* provider for it, and, once stage is "response", the HTTP response.
\* stage "rejected": fetch() itself rejected.
Exchange(stage, body, calls, status, parsable, ok, text) ==
    [stage |-> stage, body |-> body, calls |-> calls, status |-> status,
     parsable |-> parsable, ok |-> ok, text |-> text]

\* Request bodies: kind "string" is { prompt: <text> }.
Body(kind, text) == [kind |-> kind, text |-> text]

Request(body) == Exchange("request", body, <<>>, 0, FALSE, FALSE, <<>>)

RemoveAt(s, i) == SubSeq(s, 1, i - 1) \o SubSeq(s, i + 1, Len(s))

\* crypto.randomUUID(): an identifier no message of the conversation has.
FreshId(msgs) ==
    LET used == {msgs[i].id : i \in 1..Len(msgs)}
    IN CHOOSE n \in 1..(Len(msgs) + 1) :
           n \notin used /\ \A m \in 1..(n - 1) : m \in used

ChatMessage(id, role, content) == [id |-> id, role |-> role, content |-> content]

Init ==
    /\ prompt = <<>>
    /\ messages = <<>>
    /\ loading = FALSE
    /\ error = Null
    /\ inflight = <<>>

\* ------------------------------------------------------------ the relay
\* What the provider call can do: resolve with output_text (a string, or
\* none) or throw an OpenAI.APIError (status: number | undefined), an Error
\* or any other value.
Outcome(kind, status, message, output) ==
    [kind |-> kind, status |-> status, message |-> message, output |-> output]

ProviderOutcomes ==
    { Outcome("success", Null, <<>>, Some(<<"x">>)),
      Outcome("success", Null, <<>>, Some(<<>>)),
      Outcome("success", Null, <<>>, Null),
      Outcome("APIError", Some(429), <<"Rate limit reached">>, Null),
      Outcome("APIError", Null, <<"Connection error.">>, Null),
      Outcome("Error", Null, <<"boom">>, Null),
      Outcome("Error", Null, <<>>, Null),
      Outcome("thrown", Null, <<"oops">>, Null) }

\* `${err.status}`
StatusText(status) ==
    IF status = Null THEN <<"undefined">> ELSE <<ToString(status[1])>>

Respond(x, status, ok, text) ==
    [x EXCEPT !.stage = "response", !.status = status, !.parsable = TRUE,
              !.ok = ok, !.text = text]

\* The catch block answering 500 whatever the error.
Catch_Always500(x, err) ==
    IF err.kind = "APIError"
    THEN Respond(x, 500, FALSE, StatusText(err.status) \o <<": ">> \o err.message)
    ELSE Respond(x, 500, FALSE,
                 IF err.message = <<>> THEN ServerErrorMsg ELSE err.message)

\* The catch block of POST.
Catch(x, err) ==
    IF err.kind = "APIError"
    THEN Respond(x, IF err.status = Null THEN 500 ELSE err.status[1], FALSE,
                 StatusText(err.status) \o <<": ">> \o err.message)
    ELSE LET msg == err.message
         IN Respond(x, 500, FALSE, IF msg = <<>> THEN ServerErrorMsg ELSE msg)

\* POST testing the prompt as sent, without trim().
PostBegin_NoTrim(x) ==
    CASE x.body.kind = "malformed" ->
           Catch(x, Outcome("Error", Null, <<"Unexpected end of JSON input">>, Null))
      [] x.body.kind = "nonstring" ->
           Catch(x, Outcome("Error", Null, <<"body?.prompt?.trim is not a function">>, Null))
      [] x.body.kind \in {"null", "missing", "nullprompt"} ->
           Respond(x, 400, FALSE, PromptEmptyMsg)
      [] x.body.kind = "string" ->
           IF x.body.text = <<>>
           THEN Respond(x, 400, FALSE, PromptEmptyMsg)
           ELSE [x EXCEPT !.stage = "provider",
                          !.calls = Append(@, x.body.text)]

\* POST up to its await of client.responses.create.
PostBegin(x) ==
    CASE x.body.kind = "malformed" ->
           Catch(x, Outcome("Error", Null, <<"Unexpected end of JSON input">>, Null))
      [] x.body.kind = "nonstring" ->
           Catch(x, Outcome("Error", Null, <<"body?.prompt?.trim is not a function">>, Null))
      [] x.body.kind \in {"null", "missing", "nullprompt"} ->
           Respond(x, 400, FALSE, PromptEmptyMsg)
      [] x.body.kind = "string" ->
           LET p == Trim(x.body.text)
           IN IF p = <<>>
              THEN Respond(x, 400, FALSE, PromptEmptyMsg)
              ELSE [x EXCEPT !.stage = "provider", !.calls = Append(@, p)]

\* POST calling the provider a second time after a failure.
PostEnd_Retry(x, o) ==
    IF o.kind = "success"
    THEN Respond(x, 200, TRUE, IF o.output = Null THEN <<>> ELSE o.output[1])
    ELSE IF Len(x.calls) < 2
         THEN [x EXCEPT !.calls = Append(@, x.calls[1])]
         ELSE Catch(x, o)

\* POST from the provider's answer on.
PostEnd(x, o) ==
    IF o.kind = "success"
    THEN Respond(x, 200, TRUE, IF o.output = Null THEN <<>> ELSE o.output[1])
    ELSE Catch(x, o)

RelayReceive(i) ==
    /\ inflight[i].stage = "request"
    /\ inflight' = [inflight EXCEPT ![i] = PostBegin(@)]
    /\ UNCHANGED <<prompt, messages, loading, error>>

ProviderReturn(i, o) ==
    /\ inflight[i].stage = "provider"
    /\ inflight' = [inflight EXCEPT ![i] = PostEnd(@, o)]
    /\ UNCHANGED <<prompt, messages, loading, error>>

\* ----------------------------------------------------------- the client
\* A submit button that is never disabled.
canSubmit_Always == TRUE
canSubmit == ~loading

Apply(s) ==
    /\ prompt' = s.prompt
    /\ messages' = s.messages
    /\ loading' = s.loading
    /\ error' = s.error
    /\ inflight' = s.inflight

\* onChange={(e) => setPrompt(e.target.value)}
SetPromptState(s, v) == [s EXCEPT !.prompt = v]

\* onSubmit without its test of the trimmed input.
OnSubmitState_NoGuard(s) ==
    LET trimmed == Trim(s.prompt)
    IN [s EXCEPT
          !.error = Null,
          !.loading = TRUE,
          !.messages = Append(@, ChatMessage(FreshId(@), "user", trimmed)),
          !.prompt = <<>>,
          !.inflight = Append(@, Request(Body("string", trimmed)))]

\* onSubmit up to its await of fetch.
OnSubmitState(s) ==
    LET trimmed == Trim(s.prompt)
    IN IF trimmed = <<>>
       THEN [s EXCEPT !.error = Some(PleaseEnterMsg)]
       ELSE [s EXCEPT
               !.error = Null,
               !.loading = TRUE,
               !.messages = Append(@, ChatMessage(FreshId(@), "user", trimmed)),
               !.prompt = <<>>,
               !.inflight = Append(@, Request(Body("string", trimmed)))]

\* onSubmit with setLoading(false) at the end of the try body, not in finally.
OnSubmitResumeState_KeepsLoading(s, i) ==
    LET x == s.inflight[i]
        resOk == x.status \in 200..299
        ai(content) == ChatMessage(FreshId(s.messages), "ai", content)
        rest == RemoveAt(s.inflight, i)
    IN IF x.stage = "rejected" \/ ~x.parsable
       THEN [s EXCEPT !.error = Some(NetworkErrorMsg),
                      !.messages = Append(@, ai(ErrorPrefix \o NetworkErrorMsg)),
                      !.inflight = rest]
       ELSE IF ~resOk \/ ~x.ok
       THEN LET errMsg == IF x.ok THEN RequestFailedMsg ELSE x.text
            IN [s EXCEPT !.error = Some(errMsg),
                         !.messages = Append(@, ai(ErrorPrefix \o errMsg)),
                         !.loading = FALSE,
                         !.inflight = rest]
       ELSE [s EXCEPT
               !.messages = Append(@, ai(IF x.text = <<>> THEN NoOutputMsg
                                         ELSE x.text)),
               !.loading = FALSE,
               !.inflight = rest]

\* onSubmit with a failure envelope's message appended as it is.
OnSubmitResumeState_NoPrefix(s, i) ==
    LET x == s.inflight[i]
        resOk == x.status \in 200..299
        ai(content) == ChatMessage(FreshId(s.messages), "ai", content)
        rest == RemoveAt(s.inflight, i)
    IN IF x.stage = "rejected" \/ ~x.parsable
       THEN [s EXCEPT !.error = Some(NetworkErrorMsg),
                      !.messages = Append(@, ai(ErrorPrefix \o NetworkErrorMsg)),
                      !.loading = FALSE,
                      !.inflight = rest]
       ELSE IF ~resOk \/ ~x.ok
       THEN LET errMsg == IF x.ok THEN RequestFailedMsg ELSE x.text
            IN [s EXCEPT !.error = Some(errMsg),
                         !.messages = Append(@, ai(errMsg)),
                         !.loading = FALSE,
                         !.inflight = rest]
       ELSE [s EXCEPT
               !.messages = Append(@, ai(IF x.text = <<>> THEN NoOutputMsg
                                         ELSE x.text)),
               !.loading = FALSE,
               !.inflight = rest]

\* onSubmit from the settling of fetch on: the try body, catch and finally.
OnSubmitResumeState(s, i) ==
    LET x == s.inflight[i]
        resOk == x.status \in 200..299
        ai(content) == ChatMessage(FreshId(s.messages), "ai", content)
        rest == RemoveAt(s.inflight, i)
    IN IF x.stage = "rejected" \/ ~x.parsable
       THEN [s EXCEPT !.error = Some(NetworkErrorMsg),
                      !.messages = Append(@, ai(ErrorPrefix \o NetworkErrorMsg)),
                      !.loading = FALSE,
                      !.inflight = rest]
       ELSE IF ~resOk \/ ~x.ok
       THEN LET errMsg == IF x.ok THEN RequestFailedMsg ELSE x.text
            IN [s EXCEPT !.error = Some(errMsg),
                         !.messages = Append(@, ai(ErrorPrefix \o errMsg)),
                         !.loading = FALSE,
                         !.inflight = rest]
       ELSE [s EXCEPT
               !.messages = Append(@, ai(IF x.text = <<>> THEN NoOutputMsg
                                         ELSE x.text)),
               !.loading = FALSE,
               !.inflight = rest]

\* clearChat variants: one that also ends the loading state, one that
\* leaves the error banner.
ClearChatState_AlsoStopsLoading(s) ==
    [s EXCEPT !.messages = <<>>, !.error = Null, !.loading = FALSE]

ClearChatState_KeepsError(s) ==
    [s EXCEPT !.messages = <<>>]

ClearChatState(s) == [s EXCEPT !.messages = <<>>, !.error = Null]

setPrompt(v) == Apply(SetPromptState(State, v))

\* The form's submit: the submit button is disabled={!canSubmit}.
onSubmit ==
    /\ canSubmit
    /\ Len(Trim(prompt)) > 0 => Len(messages) + 2 <= MaxMsgs
    /\ Apply(OnSubmitState(State))

onSubmitResume(i) ==
    /\ inflight[i].stage \in {"response", "rejected"}
    /\ Apply(OnSubmitResumeState(State, i))

clearChat == Apply(ClearChatState(State))

\* ---------------------------------------------------------- the network
\* fetch() rejects: the connection fails before a response is read.
FetchRejects(i) ==
    /\ inflight[i].stage \in {"request", "provider", "response"}
    /\ inflight' = [inflight EXCEPT ![i].stage = "rejected"]
    /\ UNCHANGED <<prompt, messages, loading, error>>

\* An intermediary answers instead of the relay: a body that is no JSON, or
\* a non-OK status around a success envelope.
GatewayResponses ==
    { [status |-> 502, parsable |-> FALSE, ok |-> FALSE, text |-> <<>>],
      [status |-> 502, parsable |-> TRUE, ok |-> TRUE, text |-> <<"x">>] }

GatewayAnswers(i, r) ==
    /\ inflight[i].stage = "request"
    /\ inflight' = [inflight EXCEPT ![i] =
                      [@ EXCEPT !.stage = "response", !.status = r.status,
                                !.parsable = r.parsable, !.ok = r.ok,
                                !.text = r.text]]
    /\ UNCHANGED <<prompt, messages, loading, error>>

Next ==
    \/ \E v \in Inputs : setPrompt(v)
    \/ onSubmit
    \/ \E i \in 1..Len(inflight) : RelayReceive(i)
    \/ \E i \in 1..Len(inflight), o \in ProviderOutcomes : ProviderReturn(i, o)
    \/ \E i \in 1..Len(inflight) : FetchRejects(i)
    \/ \E i \in 1..Len(inflight), r \in GatewayResponses : GatewayAnswers(i, r)
    \/ \E i \in 1..Len(inflight) : onSubmitResume(i)
    \/ clearChat

Spec == Init /\ [][Next]_vars

\* The continuation of an awaited fetch runs once the fetch has settled.
FairSpec == Spec /\ WF_vars(\E i \in 1..Len(inflight) : onSubmitResume(i))

\* ------------------------------------------- the relay, called directly
Bodies ==
    {Body(k, <<>>) : k \in {"malformed", "nonstring", "null", "missing", "nullprompt"}}
    \cup {Body("string", s) : s \in Inputs}

ApiPost(b) ==
    /\ Len(inflight) < MaxApi
    /\ inflight' = Append(inflight, Request(b))
    /\ UNCHANGED <<prompt, messages, loading, error>>

ApiDone(i) ==
    /\ inflight[i].stage = "response"
    /\ inflight' = RemoveAt(inflight, i)
    /\ UNCHANGED <<prompt, messages, loading, error>>

RelayNext ==
    \/ \E b \in Bodies : ApiPost(b)
    \/ \E i \in 1..Len(inflight) : RelayReceive(i)
    \/ \E i \in 1..Len(inflight), o \in ProviderOutcomes : ProviderReturn(i, o)
    \/ \E i \in 1..Len(inflight) : ApiDone(i)

RelaySpec == Init /\ [][RelayNext]_vars

\* ------------------------------------------------- vocabulary of claims
Last(s) == s[Len(s)]

\* This step appends exactly one message of the role, keeping the others.
Appended(role) ==
    /\ Len(messages') = Len(messages) + 1
    /\ SubSeq(messages', 1, Len(messages)) = messages
    /\ Last(messages').role = role

\* The fetch of an exchange has settled: its response arrived or it rejected.
Settled(x) == x.stage \in {"response", "rejected"}

\* A settled exchange that the client must report as an error.
Failed(x) ==
    \/ x.stage = "rejected"
    \/ ~x.parsable
    \/ x.status \notin 200..299
    \/ ~x.ok

\* The prompt of a request body is empty after trimming, or is not there.
EmptyPrompt(b) ==
    \/ b.kind \in {"null", "missing", "nullprompt"}
    \/ b.kind = "string" /\ Trim(b.text) = <<>>

Alternates(msgs) ==
    \A k \in 1..(Len(msgs) - 1) : msgs[k].role # msgs[k + 1].role

\* ---------------------------------------------------------------- C1
\* C1: a step that issues a relay call is a submission of a non-empty
\* trimmed input and appends exactly one user message holding it; a step
\* that ends a relay call appends exactly one assistant message and sets
\* loading to false; nothing else but a reset changes the conversation, so
\* a cycle without a reset adds exactly 2 messages; the client is Idle
\* exactly when no call is outstanding; and once the call has settled the
\* client eventually is Idle.
C1_SubmitCycle ==
    /\ [][Len(inflight') > Len(inflight) =>
            /\ ~loading /\ loading'
            /\ Trim(prompt) # <<>>
            /\ Appended("user")
            /\ Last(messages').content = Trim(prompt)]_vars
    /\ [][Len(inflight') < Len(inflight) =>
            /\ loading /\ ~loading'
            /\ Appended("ai")]_vars
    /\ [][messages' # messages =>
            \/ messages' = <<>>
            \/ Len(inflight') > Len(inflight)
            \/ Len(inflight') < Len(inflight)]_vars
    /\ [](loading <=> inflight # <<>>)
    /\ ((\E i \in 1..Len(inflight) : Settled(inflight[i])) ~> ~loading)

\* A cycle that began with one message, a late response, in the list.
C1_Witness ==
    /\ ~loading
    /\ inflight = <<>>
    /\ Len(messages) = 3
    /\ messages[2].role = "user"
    /\ messages[2].content = <<"a", " ", "a">>
    /\ messages[3].role = "ai"
    /\ messages[3].content = ErrorPrefix \o NetworkErrorMsg

\* ---------------------------------------------------------------- C2
\* C2: while the input is empty or whitespace-only, no step issues a relay
\* call, enters Pending or appends a user message, and onSubmit changes
\* nothing but the validation message, which it sets to "Please enter a
\* prompt.".
C2_BlankSubmitOnlyValidates ==
    /\ [][Trim(prompt) = <<>> =>
            /\ Len(inflight') <= Len(inflight)
            /\ (loading' => loading)
            /\ ~Appended("user")]_vars
    /\ [](Trim(prompt) = <<>> =>
            OnSubmitState(State) = [State EXCEPT !.error = Some(PleaseEnterMsg)])

C2_Witness ==
    /\ Len(prompt) > 0
    /\ Trim(prompt) = <<>>
    /\ error = Some(PleaseEnterMsg)
    /\ messages = <<>>
    /\ ~loading
    /\ inflight = <<>>

\* ---------------------------------------------------------------- C3
\* C3: at most one relay call is outstanding, and while the client is
\* Pending no step appends a user message or issues a relay call.
C3_SingleFlight ==
    /\ [](Len(inflight) <= 1)
    /\ [][loading =>
            /\ Len(inflight') <= Len(inflight)
            /\ ~Appended("user")]_vars

\* Pending with a non-empty input typed: the submission that is rejected.
C3_Witness ==
    /\ loading
    /\ Len(inflight) = 1
    /\ Trim(prompt) # <<>>

\* ---------------------------------------------------------------- C4
\* C4: in every reachable state clearChat yields a state with an empty
\* conversation and no error, changes nothing else, and applied to its own
\* result changes nothing.
C4_ResetEmptiesAndIsIdempotent ==
    LET s == ClearChatState(State)
    IN /\ Len(s.messages) = 0
       /\ s.error = Null
       /\ s.prompt = prompt /\ s.loading = loading /\ s.inflight = inflight
       /\ ClearChatState(s) = s

\* Pending with an empty conversation: only a reset leads here.
C4_Witness ==
    /\ loading
    /\ messages = <<>>
    /\ error = Null

\* ---------------------------------------------------------------- C5
\* C5: a step that clears the conversation while the client is Pending
\* leaves loading and the outstanding call as they are; and from a Pending
\* state with a cleared conversation and a settled call the client reaches
\* Idle with that call's assistant message as the only message.
C5_ResetDoesNotCancel ==
    /\ [][loading /\ messages # <<>> /\ messages' = <<>> =>
            loading' /\ inflight' = inflight]_vars
    /\ ((loading /\ messages = <<>>
           /\ \E i \in 1..Len(inflight) : Settled(inflight[i]))
          ~> (~loading /\ Len(messages) = 1 /\ messages[1].role = "ai"))

C5_Witness ==
    /\ ~loading
    /\ Len(messages) = 1
    /\ messages[1].role = "ai"
    /\ inflight = <<>>

\* ---------------------------------------------------------------- C6
\* C6: a request whose prompt is missing or empty after trimming is never
\* handed to the provider, and its response is status 400 with
\* { ok: false, error: "Prompt cannot be empty." }.
C6_EmptyPromptIs400 ==
    \A i \in 1..Len(inflight) :
        LET x == inflight[i]
        IN EmptyPrompt(x.body) =>
             /\ x.calls = <<>>
             /\ x.stage \in {"request", "response"}
             /\ x.stage = "response" =>
                  /\ x.status = 400
                  /\ x.parsable /\ ~x.ok
                  /\ x.text = PromptEmptyMsg

C6_Witness ==
    \E i \in 1..Len(inflight) :
        /\ inflight[i].stage = "response"
        /\ inflight[i].body.kind = "string"
        /\ Len(inflight[i].body.text) > 0
        /\ inflight[i].status = 400

\* ---------------------------------------------------------------- C7
\* C7: for every request at the provider and every way the provider call
\* can fail, the relay answers with an envelope with ok = false whose status
\* is the provider's when the failure is an APIError that carries one and
\* 500 otherwise; a malformed body or a prompt that is no string is answered
\* 500 with ok = false; every response of the relay is an envelope, with
\* ok = true exactly when the status is 200.
C7_FailureEnvelope ==
    \A i \in 1..Len(inflight) :
        LET x == inflight[i]
        IN /\ x.stage = "provider" =>
                \A o \in ProviderOutcomes :
                    o.kind # "success" =>
                        LET r == PostEnd(x, o)
                        IN /\ r.stage = "response"
                           /\ r.parsable /\ ~r.ok
                           /\ r.text # <<>>
                           /\ r.status =
                                IF o.kind = "APIError" /\ o.status # Null
                                THEN o.status[1] ELSE 500
           /\ x.stage = "response" =>
                /\ x.parsable
                /\ x.ok <=> x.status = 200
                /\ x.body.kind \in {"malformed", "nonstring"} =>
                     x.status = 500 /\ ~x.ok

C7_Witness ==
    \E i \in 1..Len(inflight) :
        /\ inflight[i].stage = "response"
        /\ inflight[i].status = 429
        /\ ~inflight[i].ok
        /\ inflight[i].text = <<"429", ": ", "Rate limit reached">>

\* ---------------------------------------------------------------- C8
\* C8 as stated: every step that sets the error banner to a message also
\* appends an assistant message whose content is "Error: " and that message.
C8_Original ==
    [][error' # Null /\ error' # error =>
         /\ Appended("ai")
         /\ Last(messages').content = ErrorPrefix \o error'[1]]_vars

\* C8 amended: a step that ends a relay call as a failure sets the banner
\* to the message and appends an assistant message "Error: " and that
\* message; a step that sets the banner does so or is the empty-input
\* validation, which sets "Please enter a prompt." and leaves the
\* conversation as it is.
C8_ErrorsBannerAndEntry ==
    /\ [][Len(inflight') < Len(inflight) /\ Failed(inflight[1]) =>
            /\ error' # Null
            /\ Appended("ai")
            /\ Last(messages').content = ErrorPrefix \o error'[1]]_vars
    /\ [][error' # Null /\ error' # error =>
            IF error' = Some(PleaseEnterMsg)
            THEN messages' = messages
            ELSE /\ Appended("ai")
                 /\ Last(messages').content = ErrorPrefix \o error'[1]]_vars

C8_Witness ==
    /\ error = Some(<<"429", ": ", "Rate limit reached">>)
    /\ Len(messages) = 2
    /\ messages[2].role = "ai"
    /\ messages[2].content = <<"Error: ", "429", ": ", "Rate limit reached">>

\* ---------------------------------------------------------------- C9
\* C9: a step appends a user message exactly when it issues a relay
\* request, and it issues one, carrying the trimmed input; a request is
\* handed to the provider at most once, with its trimmed prompt, and exactly
\* once when the relay is waiting for the provider or has answered for it;
\* the step that ends a call, failed or not, issues no request and leaves
\* none outstanding.
C9_NoRetry ==
    /\ [][Appended("user") <=> Len(inflight') > Len(inflight)]_vars
    /\ [][Len(inflight') > Len(inflight) =>
            inflight' = Append(inflight, Request(Body("string", Trim(prompt))))]_vars
    /\ [][Len(inflight') < Len(inflight) => inflight' = <<>> /\ ~loading']_vars
    /\ [](\A i \in 1..Len(inflight) :
            LET x == inflight[i]
            IN /\ Len(x.calls) <= 1
               /\ x.calls # <<>> => x.calls[1] = Trim(x.body.text)
               /\ x.stage = "request" => x.calls = <<>>
               /\ x.stage = "provider" => Len(x.calls) = 1
               /\ (x.stage = "response" /\ x.status \in {200, 429, 500}) =>
                    Len(x.calls) = 1)

C9_Witness ==
    /\ ~loading
    /\ inflight = <<>>
    /\ error = Some(<<"boom">>)
    /\ Len(messages) = 2
    /\ messages[2].content = <<"Error: ", "boom">>

\* ---------------------------------------------------------------- C10
\* C10: no two adjacent messages of the conversation have the same role.
C10_RolesAlternate == Alternates(messages)

\* A response appended after a reset, then a user message.
C10_Witness ==
    /\ Len(messages) = 2
    /\ messages[1].role = "ai"
    /\ messages[2].role = "user"
    /\ loading
====
